---- MODULE Spec2Model ----
(***************************************************************************)
(* Model of the NFC message demo: the link codec (buildDeepLink and        *)
(* parseMessageFromUrl), the deep-link listener effect, and the write and  *)
(* read trigger handlers, in its two profiles:                             *)
(*   "custom"  src/App.tsx           nfcmsg://read?m=...      scheme only   *)
(*   "https"   src/unnamed/part_000  https://nfcmsg.test/read?m=...        *)
(*                                   scheme and host, busy flags, readTag  *)
(*                                                                         *)
(* A string is a sequence of Unicode code points (well-formed strings: no  *)
(* lone surrogates).  URL, URLSearchParams, encodeURIComponent and         *)
(* decodeURIComponent are modelled after the WHATWG URL standard and       *)
(* ECMA-262, which is what the calls in the source are documented to do.   *)
(***************************************************************************)
EXTENDS Integers, Sequences, FiniteSets, TLC

VARIABLES
    profile,      \* which of the two source files runs: "custom" or "https"
    input,        \* useState: the draft message
    deepLink,     \* useMemo: buildDeepLink(input) as of the last render
    lastRead,     \* useState: the value last handed to setLastRead, or null
    isWriting,    \* useState (https profile): write busy flag
    isReading,    \* useState (https profile): read busy flag
    listener,     \* the useEffect: "none" (not run yet), "active", "removed"
    coldStart,    \* the getInitialURL promise: not asked, pending, or resolved
    session,      \* NfcManager: the one technology session and who asked for it
    ops,          \* the invocations of writeToTag and readTag, in trigger order
    codecPc,      \* codec runs: position
    codecIn,      \* codec runs: the input (a message or the parts of a url)
    codecUrl,     \* codec runs: the url handed to parseMessageFromUrl
    codecOut      \* codec runs: what parseMessageFromUrl returned

appVars   == <<input, deepLink, lastRead, isWriting, isReading, listener, coldStart,
               session, ops>>
codecVars == <<codecPc, codecIn, codecUrl, codecOut>>
vars      == <<profile, appVars, codecVars>>

(***************************************************************************)
(* Strings                                                                 *)
(***************************************************************************)
\* The printable ASCII characters, code points 32 .. 126, in order.
AsciiPrintable ==
    << " ", "!", "dquote", "#", "$", "%", "&", "'", "(", ")", "*", "+", ",", "-",
       ".", "/", "0", "1", "2", "3", "4", "5", "6", "7", "8", "9", ":", ";",
       "<", "=", ">", "?", "@", "A", "B", "C", "D", "E", "F", "G", "H", "I",
       "J", "K", "L", "M", "N", "O", "P", "Q", "R", "S", "T", "U", "V", "W",
       "X", "Y", "Z", "[", "backslash", "]", "^", "_", "backtick", "a", "b", "c", "d", "e",
       "f", "g", "h", "i", "j", "k", "l", "m", "n", "o", "p", "q", "r", "s",
       "t", "u", "v", "w", "x", "y", "z", "{", "|", "}", "~" >>

\* The code point of a character written as a one-character string (the
\* double quote and the backslash by name); "e-acute" is U+00E9, the one
\* non-ASCII character the inputs use.
Code(ch) ==
    IF ch = "e-acute" THEN 233
    ELSE 31 + (CHOOSE i \in 1..Len(AsciiPrintable) : AsciiPrintable[i] = ch)

\* A string literal, written as a tuple of one-character strings.
Str(t) == [i \in 1..Len(t) |-> Code(t[i])]

Min(S) == CHOOSE x \in S : \A y \in S : x <= y

\* s[from .. to], empty when from > to.
Slice(s, from, to) == [i \in 1..(IF to >= from THEN to - from + 1 ELSE 0) |-> s[from + i - 1]]

\* The first index >= from of an element of set in s, Len(s) + 1 when none.
IndexOf(s, set, from) ==
    LET I == {i \in from..Len(s) : s[i] \in set}
    IN  IF I = {} THEN Len(s) + 1 ELSE Min(I)

IsUpper(c) == c >= 65 /\ c <= 90
IsLower(c) == c >= 97 /\ c <= 122
IsDigit(c) == c >= 48 /\ c <= 57
IsAlpha(c) == IsUpper(c) \/ IsLower(c)
IsHex(c)   == IsDigit(c) \/ (c >= 65 /\ c <= 70) \/ (c >= 97 /\ c <= 102)

ToLower(s) == [i \in 1..Len(s) |-> IF IsUpper(s[i]) THEN s[i] + 32 ELSE s[i]]

HexVal(c) == IF IsDigit(c) THEN c - 48 ELSE IF c >= 97 THEN c - 87 ELSE c - 55

\* Upper-case hexadecimal digit of n in 0..15.
HexDigit(n) == IF n < 10 THEN 48 + n ELSE 55 + n

PERCENT == Code("%")

\* "%XX" for one byte.
PctByte(b) == << PERCENT, HexDigit(b \div 16), HexDigit(b % 16) >>

\* The UTF-8 encoding of one code point.
Utf8Bytes(cp) ==
    IF cp < 128 THEN << cp >>
    ELSE IF cp < 2048 THEN << 192 + (cp \div 64), 128 + (cp % 64) >>
    ELSE IF cp < 65536
         THEN << 224 + (cp \div 4096), 128 + ((cp \div 64) % 64), 128 + (cp % 64) >>
    ELSE << 240 + (cp \div 262144), 128 + ((cp \div 4096) % 64),
            128 + ((cp \div 64) % 64), 128 + (cp % 64) >>

PctEncodeChar(cp) ==
    LET b == Utf8Bytes(cp)
        RECURSIVE enc(_)
        enc(i) == IF i > Len(b) THEN << >> ELSE PctByte(b[i]) \o enc(i + 1)
    IN  enc(1)

(***************************************************************************)
(* encodeURIComponent (ECMA-262 19.2.6.4): every code point except         *)
(* A-Z a-z 0-9 - _ . ! ~ * ' ( ) is replaced by the percent-encoding of    *)
(* its UTF-8 bytes.                                                        *)
(***************************************************************************)
UriUnreservedMarks == {Code(ch) : ch \in {"-", "_", ".", "!", "~", "*", "'", "(", ")"}}

IsUriUnreserved(c) == IsAlpha(c) \/ IsDigit(c) \/ c \in UriUnreservedMarks

RECURSIVE encodeURIComponent(_)
encodeURIComponent(s) ==
    IF s = << >> THEN << >>
    ELSE (IF IsUriUnreserved(Head(s)) THEN << Head(s) >> ELSE PctEncodeChar(Head(s)))
         \o encodeURIComponent(Tail(s))

(***************************************************************************)
(* UTF-8 decoding of a byte sequence.  val is the decoded string with      *)
(* U+FFFD for each byte that starts no well-formed sequence, ok says that  *)
(* there was none.  (The inputs of this model never make a lossy decode    *)
(* meet an ill-formed sequence; the strict decode only needs ok.)          *)
(***************************************************************************)
Utf8SeqLen(b) ==
    IF b < 128 THEN 1
    ELSE IF b >= 192 /\ b <= 223 THEN 2
    ELSE IF b >= 224 /\ b <= 239 THEN 3
    ELSE IF b >= 240 /\ b <= 247 THEN 4
    ELSE 0

IsCont(b) == b >= 128 /\ b <= 191

\* The code point of the n-byte sequence at bytes[i], or -1 when ill-formed.
Utf8At(bytes, i, n) ==
    IF n = 0 \/ i + n - 1 > Len(bytes) THEN -1
    ELSE IF n = 1 THEN bytes[i]
    ELSE IF \E k \in 1..(n - 1) : ~IsCont(bytes[i + k]) THEN -1
    ELSE LET cp == IF n = 2 THEN (bytes[i] - 192) * 64 + (bytes[i + 1] - 128)
                   ELSE IF n = 3
                        THEN (bytes[i] - 224) * 4096 + (bytes[i + 1] - 128) * 64
                             + (bytes[i + 2] - 128)
                   ELSE (bytes[i] - 240) * 262144 + (bytes[i + 1] - 128) * 4096
                        + (bytes[i + 2] - 128) * 64 + (bytes[i + 3] - 128)
             wellFormed ==
                   IF n = 2 THEN cp >= 128
                   ELSE IF n = 3 THEN cp >= 2048 /\ ~(cp >= 55296 /\ cp <= 57343)
                   ELSE cp >= 65536 /\ cp <= 1114111
         IN  IF wellFormed THEN cp ELSE -1

RECURSIVE Utf8DecodeFrom(_, _)
Utf8DecodeFrom(bytes, i) ==
    IF i > Len(bytes) THEN [ok |-> TRUE, val |-> << >>]
    ELSE LET n  == Utf8SeqLen(bytes[i])
             cp == Utf8At(bytes, i, n)
         IN  IF cp = -1
             THEN [ok |-> FALSE, val |-> << 65533 >> \o Utf8DecodeFrom(bytes, i + 1).val]
             ELSE LET rest == Utf8DecodeFrom(bytes, i + n)
                  IN  [ok |-> rest.ok, val |-> << cp >> \o rest.val]

Utf8Decode(bytes) == Utf8DecodeFrom(bytes, 1)

\* "%XY" with X, Y hexadecimal digits starts at s[i].
IsPctTriple(s, i) ==
    i + 2 <= Len(s) /\ s[i] = PERCENT /\ IsHex(s[i + 1]) /\ IsHex(s[i + 2])

(***************************************************************************)
(* WHATWG percent-decode of the UTF-8 encoding of s: "%XY" becomes the     *)
(* byte XY, every other code point (a "%" that starts no triple included)  *)
(* its UTF-8 bytes.                                                        *)
(***************************************************************************)
RECURSIVE PercentDecodeBytes(_, _)
PercentDecodeBytes(s, i) ==
    IF i > Len(s) THEN << >>
    ELSE IF IsPctTriple(s, i)
         THEN << 16 * HexVal(s[i + 1]) + HexVal(s[i + 2]) >> \o PercentDecodeBytes(s, i + 3)
    ELSE Utf8Bytes(s[i]) \o PercentDecodeBytes(s, i + 1)

(***************************************************************************)
(* decodeURIComponent (ECMA-262 19.2.6.2): a "%" that is not followed by   *)
(* two hexadecimal digits, or percent-encoded bytes that are not           *)
(* well-formed UTF-8, throw URIError (ok = FALSE); otherwise every "%XY"   *)
(* run is replaced by the code points it encodes.                          *)
(***************************************************************************)
decodeURIComponent(s) ==
    IF \E i \in 1..Len(s) : s[i] = PERCENT /\ ~IsPctTriple(s, i)
    THEN [ok |-> FALSE, val |-> << >>]
    ELSE LET d == Utf8Decode(PercentDecodeBytes(s, 1))
         IN  IF d.ok THEN d ELSE [ok |-> FALSE, val |-> << >>]

(***************************************************************************)
(* new URL(url) with no base, after the WHATWG basic URL parser, for the   *)
(* parts the source reads: protocol, hostname and the query.  Hosts are    *)
(* ASCII names (no IPv4 number, IPv6 literal or IDNA label among the       *)
(* inputs).  ok = FALSE is the TypeError the constructor throws.           *)
(***************************************************************************)
COLON     == Code(":")
SLASH     == Code("/")
BACKSLASH == Code("backslash")
QUESTION  == Code("?")
HASH      == Code("#")
AT        == Code("@")
AMP       == Code("&")
EQUALS    == Code("=")
PLUS      == Code("+")
SPACE     == Code(" ")

SpecialSchemes ==
    { Str(<<"h","t","t","p">>), Str(<<"h","t","t","p","s">>), Str(<<"w","s">>),
      Str(<<"w","s","s">>), Str(<<"f","t","p">>), Str(<<"f","i","l","e">>) }

SchemeMarks == {Code("+"), Code("-"), Code(".")}

IsSchemeChar(c) == IsAlpha(c) \/ IsDigit(c) \/ c \in SchemeMarks

IsNotTabOrNewline(c) == c \notin {9, 10, 13}

\* Leading and trailing C0 controls and spaces stripped, then tabs and
\* newlines removed.
UrlPreprocess(url) ==
    LET keep == {i \in 1..Len(url) : url[i] > 32}
    IN  IF keep = {} THEN << >>
        ELSE SelectSeq(Slice(url, Min(keep), CHOOSE i \in keep : \A j \in keep : j <= i),
                       IsNotTabOrNewline)

ForbiddenHostCodePoints ==
    {0, 9, 10, 13} \cup {Code(ch) : ch \in {" ", "#", "/", ":", "<", ">", "?", "@", "[",
                                            "backslash", "]", "^", "|"}}

ForbiddenDomainCodePoints ==
    ForbiddenHostCodePoints \cup (1..31) \cup {Code("%"), 127}

\* The host parser: [ok, host].
ParseHost(h, special) ==
    IF ~special
    THEN IF \E i \in 1..Len(h) : h[i] \in ForbiddenHostCodePoints
         THEN [ok |-> FALSE, host |-> << >>]
         ELSE [ok |-> TRUE, host |-> h]
    ELSE LET d == Utf8Decode(PercentDecodeBytes(h, 1)).val
         IN  IF d = << >> \/ \E i \in 1..Len(d) : d[i] \in ForbiddenDomainCodePoints
             THEN [ok |-> FALSE, host |-> << >>]
             ELSE [ok |-> TRUE, host |-> ToLower(d)]

RECURSIVE DecimalValue(_)
DecimalValue(s) ==
    IF s = << >> THEN 0
    ELSE LET v == 10 * DecimalValue(Slice(s, 1, Len(s) - 1)) + (s[Len(s)] - 48)
         IN  IF v > 65535 THEN 65536 ELSE v

\* The authority: userinfo up to the last "@", then host and optional port.
HostAndPort(auth) ==
    LET ats == {i \in 1..Len(auth) : auth[i] = AT}
    IN  IF ats = {} THEN [userinfo |-> FALSE, rest |-> auth]
        ELSE [userinfo |-> TRUE,
              rest |-> Slice(auth, (CHOOSE i \in ats : \A j \in ats : j <= i) + 1, Len(auth))]

PortOk(port) ==
    /\ \A i \in 1..Len(port) : IsDigit(port[i])
    /\ DecimalValue(port) <= 65535

ParseHostPort(hp, c, special) ==
    IF (hp.userinfo /\ hp.rest = << >>) \/ ~PortOk(Slice(hp.rest, c + 1, Len(hp.rest)))
       \/ (c <= Len(hp.rest) /\ c = 1)
    THEN [ok |-> FALSE, host |-> << >>]
    ELSE ParseHost(Slice(hp.rest, 1, c - 1), special)

ColonIn(hp) == IndexOf(hp.rest, {COLON}, 1)

ParseAuthority(auth, special) ==
    ParseHostPort(HostAndPort(auth), ColonIn(HostAndPort(auth)), special)

\* The query state's percent-encoding of the query.
QueryEncodeBase    == {Code(ch) : ch \in {"dquote", "#", "<", ">"}}
QueryEncodeSpecial == QueryEncodeBase \cup {Code("'")}

QueryEncodeSet(special) == IF special THEN QueryEncodeSpecial ELSE QueryEncodeBase

RECURSIVE QueryEncode(_, _)
QueryEncode(q, special) ==
    IF q = << >> THEN << >>
    ELSE (IF Head(q) <= 32 \/ Head(q) > 126 \/ Head(q) \in QueryEncodeSet(special)
          THEN PctEncodeChar(Head(q)) ELSE << Head(q) >>)
         \o QueryEncode(Tail(q), special)

UrlFailure == [ok |-> FALSE, protocol |-> << >>, hostname |-> << >>, query |-> << >>]

\* The query of s, which starts at or after index from: between the first
\* "?" before any "#" and the "#".
QueryOf(s, q, special) ==
    IF q <= Len(s) /\ s[q] = QUESTION
    THEN QueryEncode(Slice(s, q + 1, IndexOf(s, {HASH}, q) - 1), special)
    ELSE << >>

UrlRecord(s, scheme, special, host, authEnd) ==
    IF ~host.ok THEN UrlFailure
    ELSE [ok |-> TRUE, protocol |-> scheme \o << COLON >>, hostname |-> host.host,
          query |-> QueryOf(s, IndexOf(s, {QUESTION, HASH}, authEnd), special)]

AuthorityEnd(s, start, special) ==
    IndexOf(s, {SLASH, QUESTION, HASH} \cup (IF special THEN {BACKSLASH} ELSE {}), start)

\* A special scheme: slashes and backslashes after the colon are skipped and
\* an authority follows.
ParseSpecial(s, scheme, start) ==
    UrlRecord(s, scheme, TRUE,
              ParseAuthority(Slice(s, start, AuthorityEnd(s, start, TRUE) - 1), TRUE),
              AuthorityEnd(s, start, TRUE))

\* Any other scheme: an authority only after "//".
ParseNonSpecial(s, scheme, j) ==
    IF j + 2 <= Len(s) /\ s[j + 1] = SLASH /\ s[j + 2] = SLASH
    THEN UrlRecord(s, scheme, FALSE,
                   ParseAuthority(Slice(s, j + 3, AuthorityEnd(s, j + 3, FALSE) - 1), FALSE),
                   AuthorityEnd(s, j + 3, FALSE))
    ELSE UrlRecord(s, scheme, FALSE, [ok |-> TRUE, host |-> << >>], j + 1)

FirstNonSlash(s, from) ==
    LET I == {i \in from..Len(s) : s[i] \notin {SLASH, BACKSLASH}}
    IN  IF I = {} THEN Len(s) + 1 ELSE Min(I)

ParseAfterScheme(s, scheme, j) ==
    IF scheme \in SpecialSchemes THEN ParseSpecial(s, scheme, FirstNonSlash(s, j + 1))
    ELSE ParseNonSpecial(s, scheme, j)

\* The index of the first code point that cannot be part of a scheme.
SchemeEnd(s) ==
    LET I == {i \in 1..Len(s) : ~IsSchemeChar(s[i])}
    IN  IF I = {} THEN Len(s) + 1 ELSE Min(I)

ParseScheme(s, j) ==
    IF s = << >> \/ ~IsAlpha(s[1]) \/ j > Len(s) \/ s[j] # COLON THEN UrlFailure
    ELSE ParseAfterScheme(s, ToLower(Slice(s, 1, j - 1)), j)

ParsePreprocessed(s) == ParseScheme(s, SchemeEnd(s))

ParseUrl(url) == ParsePreprocessed(UrlPreprocess(url))

(***************************************************************************)
(* u.searchParams.get(name): the application/x-www-form-urlencoded parser  *)
(* on the query (split at "&", name and value at the first "=", "+" to     *)
(* space, percent-decode, UTF-8 decode), then the first value of name.     *)
(* found = FALSE is the null that get returns.                             *)
(***************************************************************************)
FormDecode(s) ==
    Utf8Decode(PercentDecodeBytes([i \in 1..Len(s) |-> IF s[i] = PLUS THEN SPACE ELSE s[i]], 1)).val

RECURSIVE SearchParamsGet(_, _)
SearchParamsGet(query, name) ==
    IF query = << >> THEN [found |-> FALSE, val |-> << >>]
    ELSE LET a    == IndexOf(query, {AMP}, 1)
             pair == Slice(query, 1, a - 1)
             e    == IndexOf(pair, {EQUALS}, 1)
             rest == Slice(query, a + 1, Len(query))
         IN  IF pair # << >> /\ FormDecode(Slice(pair, 1, e - 1)) = name
             THEN [found |-> TRUE, val |-> FormDecode(Slice(pair, e + 1, Len(pair)))]
             ELSE SearchParamsGet(rest, name)

(***************************************************************************)
(* The link codec                                                          *)
(***************************************************************************)
Profiles == {"custom", "https"}

\* A JavaScript value of type string | null.
Null    == [present |-> FALSE, val |-> << >>]
Some(s) == [present |-> TRUE, val |-> s]

\* if (v): a string that is neither null nor empty
Truthy(v) == v.present /\ v.val # << >>

StrNfcmsg     == Str(<<"n","f","c","m","s","g">>)
StrHttps      == Str(<<"h","t","t","p","s">>)
StrHttp       == Str(<<"h","t","t","p">>)
StrRead       == Str(<<"r","e","a","d">>)
StrNfcmsgTest == Str(<<"n","f","c","m","s","g",".","t","e","s","t">>)
StrSlashRead  == Str(<<"/","r","e","a","d">>)
StrColonSlashSlash == Str(<<":","/","/">>)
StrQueryM     == Str(<<"?","m","=">>)

\* const SCHEME, const HOST: of the file that profile pr names.
SCHEME(pr) == IF pr = "custom" THEN StrNfcmsg ELSE StrHttps

HOST(pr) == IF pr = "custom" THEN StrRead ELSE StrNfcmsgTest

\* `${SCHEME}://${HOST}?m=${encoded}`, with /read before the query in the
\* https profile.
buildDeepLink(pr, message) ==
    LET encoded == encodeURIComponent(message)
    IN  SCHEME(pr) \o StrColonSlashSlash \o HOST(pr)
        \o (IF pr = "custom" THEN << >> ELSE StrSlashRead)
        \o StrQueryM \o encoded

\* A test that leaves the protocol out: C8 tells it from LinkIsOurs.
LinkIsOursAnyScheme(pr, u) == pr = "custom" \/ u.hostname = HOST(pr)

\* The protocol test alone in both profiles: C9 tells it from LinkIsOurs.
LinkIsOursSchemeOnly(pr, u) == u.protocol = SCHEME(pr) \o << COLON >>

\* The protocol test alone in the custom profile, protocol and hostname in
\* the https profile.
LinkIsOurs(pr, u) ==
    IF pr = "custom" THEN u.protocol = SCHEME(pr) \o << COLON >>
    ELSE u.protocol = SCHEME(pr) \o << COLON >> /\ u.hostname = HOST(pr)

\* return raw ? decodeURIComponent(raw) : null, and the catch of a URIError.
MessageOfParam(raw, d) ==
    IF ~raw.found \/ raw.val = << >> THEN Null
    ELSE IF d.ok THEN Some(d.val)
    ELSE Null

ParamM == Str(<<"m">>)

\* const raw = u.searchParams.get('m')
MessageOfQuery(raw) == MessageOfParam(raw, decodeURIComponent(raw.val))

\* After const u = new URL(url); ok = FALSE: the constructor threw, caught.
MessageOfUrl(pr, u) ==
    IF ~u.ok THEN Null
    ELSE IF ~LinkIsOurs(pr, u) THEN Null
    ELSE MessageOfQuery(SearchParamsGet(u.query, ParamM))

parseMessageFromUrl(pr, url) ==
    IF ~url.present \/ url.val = << >> THEN Null
    ELSE MessageOfUrl(pr, ParseUrl(url.val))

(***************************************************************************)
(* Inputs                                                                  *)
(***************************************************************************)
MaxLen == 3   \* longest message of the codec runs
MaxOps == 2   \* invocations of writeToTag and readTag in one run

\* Reserved URL characters, a space, hexadecimal digits after a "%", an
\* unreserved letter and a non-ASCII character.
Alphabet == {Code(ch) : ch \in {"x", " ", "%", "+", "&", "=", "#", "2", "5", "e-acute"}}

Messages == UNION {[1..n -> Alphabet] : n \in 0..MaxLen}

\* A link in parts: scheme "://" host path query.  A query comes with the
\* message its m parameter carries (null: no m, or an empty one).
Str9p       == Str(<<"9","p">>)
StrEvilTest == Str(<<"e","v","i","l",".","t","e","s","t">>)

UrlSchemes ==
    { StrNfcmsg, Str(<<"N","f","c","M","s","g">>), StrHttps, Str(<<"H","T","T","P","S">>),
      StrHttp, Str9p }

UrlHosts == { StrRead, StrNfcmsgTest, StrEvilTest, << >> }

UrlPaths == { << >>, StrSlashRead }

QueryNone    == [text |-> << >>, m |-> Null]
QueryHi      == [text |-> Str(<<"?","m","=","H","i">>), m |-> Some(Str(<<"H","i">>))]
QueryHello   ==
    [text |-> Str(<<"?","m","=","H","e","l","l","o","%","2","0","W","o","r","l","d">>),
     m    |-> Some(Str(<<"H","e","l","l","o"," ","W","o","r","l","d">>))]
QuerySecond  == [text |-> Str(<<"?","x","=","1","&","m","=","a","+","b">>),
                 m    |-> Some(Str(<<"a"," ","b">>))]
QueryEmptyM  == [text |-> Str(<<"?","m","=">>), m |-> Null]
QueryOther   == [text |-> Str(<<"?","x","=","1">>), m |-> Null]

UrlQueries == {QueryNone, QueryHi, QueryHello, QuerySecond, QueryEmptyM, QueryOther}

UrlParts == [scheme : UrlSchemes, host : UrlHosts, path : UrlPaths, query : UrlQueries]

ComposeUrl(p) == p.scheme \o StrColonSlashSlash \o p.host \o p.path \o p.query.text

\* The link names the configured scheme (schemes compare without case).
SchemeMatches(pr, p) == ToLower(p.scheme) = SCHEME(pr)

\* What the link carries for this application: the message of its m
\* parameter when the link is addressed to it, nothing otherwise.
ExpectedMessage(pr, p) ==
    IF SchemeMatches(pr, p) /\ (pr = "custom" \/ p.host = HOST(pr)) THEN p.query.m ELSE Null

Sentinel == Str(<<"N","o"," ","m","e","s","s","a","g","e"," ","f","o","u","n","d">>)

HelloFromNFC == Str(<<"H","e","l","l","o"," ","f","r","o","m"," ","N","F","C">>)

(***************************************************************************)
(* Codec runs: one input, encoded (a message) or composed (a link in       *)
(* parts), then handed to parseMessageFromUrl.                             *)
(***************************************************************************)
CodecInputs ==
    {[kind |-> "message", msg |-> s] : s \in Messages}
    \cup {[kind |-> "url", parts |-> p] : p \in UrlParts}

Idle == [state |-> "idle", owner |-> 0]

\* The getInitialURL promise; link is the launch link it resolved to (null:
\* the application was not launched by a link).
NotAsked       == [state |-> "idle", link |-> Null]
Asked          == [state |-> "pending", link |-> Null]
Answered(link) == [state |-> "done", link |-> link]

AppAtRest ==
    /\ input = HelloFromNFC
    /\ deepLink = buildDeepLink(profile, HelloFromNFC)
    /\ lastRead = Null
    /\ isWriting = FALSE
    /\ isReading = FALSE
    /\ listener = "none"
    /\ coldStart = NotAsked
    /\ session = Idle
    /\ ops = << >>

CodecInit ==
    /\ profile \in Profiles
    /\ AppAtRest
    /\ codecPc = "start"
    /\ codecIn \in CodecInputs
    /\ codecUrl = Null
    /\ codecOut = Null

CodecBuild ==
    /\ codecPc = "start"
    /\ codecIn.kind = "message"
    /\ codecUrl' = Some(buildDeepLink(profile, codecIn.msg))
    /\ codecPc' = "built"
    /\ UNCHANGED <<profile, appVars, codecIn, codecOut>>

CodecCompose ==
    /\ codecPc = "start"
    /\ codecIn.kind = "url"
    /\ codecUrl' = Some(ComposeUrl(codecIn.parts))
    /\ codecPc' = "built"
    /\ UNCHANGED <<profile, appVars, codecIn, codecOut>>

CodecParse ==
    /\ codecPc = "built"
    /\ codecOut' = parseMessageFromUrl(profile, codecUrl)
    /\ codecPc' = "parsed"
    /\ UNCHANGED <<profile, appVars, codecIn, codecUrl>>

CodecNext == CodecBuild \/ CodecCompose \/ CodecParse

CodecSpec == CodecInit /\ [][CodecNext]_vars

(***************************************************************************)
(* The application                                                         *)
(*                                                                         *)
(* NfcManager is the platform's session manager: one technology request    *)
(* at a time (a second requestTechnology is rejected while one is pending   *)
(* or connected), and cancelTechnologyRequest, which takes no argument,     *)
(* ends whatever request there is, rejecting it if it is still pending.     *)
(* An await is a suspension point: the platform settles the awaited         *)
(* promise in one step and the handler resumes in a later one.              *)
(***************************************************************************)
Drafts == { HelloFromNFC, Str(<<"H","i"," ","%">>) }

\* Links the platform may launch the application with or notify it of.
OwnLink(pr, q) ==
    [scheme |-> SCHEME(pr), host |-> HOST(pr),
     path |-> IF pr = "custom" THEN << >> ELSE StrSlashRead,
     query |-> q]

LinksOf(pr) ==
    { OwnLink(pr, QueryHello), OwnLink(pr, QueryEmptyM),
      [OwnLink(pr, QueryHi) EXCEPT !.scheme = StrHttp],
      [OwnLink(pr, QueryHi) EXCEPT !.scheme = Str9p] }

Links == LinksOf(profile)

\* The link as the string | null the platform hands over.
LinkUrl(l) == IF l.present THEN Some(ComposeUrl(l.val)) ELSE Null

\* const msg = parseMessageFromUrl(url), for each link (or null) the platform
\* may hand over: the results are tabulated once, the callbacks look them up.
LinkParses ==
    UNION { { [pr |-> pr, link |-> l, msg |-> parseMessageFromUrl(pr, LinkUrl(l))] :
                l \in {Null} \cup {Some(x) : x \in LinksOf(pr)} } : pr \in Profiles }

MessageOfLink(pr, l) == (CHOOSE e \in LinkParses : e.pr = pr /\ e.link = l).msg

\* Failures: an Error object (message, and String(err) = "Error: " message)
\* or a thrown string (no message property).  Texts are tuples of pieces.
ErrorObject(reason)  == [message |-> Some(<<reason>>), str |-> <<"Error: ", reason>>]
ThrownString(reason) == [message |-> Null, str |-> <<reason>>]

ErrMultiRequest == ThrownString("You can only issue one request at a time")
ErrCancelled    == ThrownString("cancelled")
ErrRequest      == ErrorObject("no tag of this technology")
ErrNoTech       == ErrorObject("no tech request available")
ErrIo           == ErrorObject("transceive fail")
ErrEncode       == ErrorObject("encode fail")

\* The reason a failure carries.
Reason(err) == IF err.message.present THEN err.message.val ELSE err.str

\* err?.message ?? String(err)
ErrText(err) == IF err.message.present THEN err.message.val ELSE err.str

Pending        == [state |-> "pending",  err |-> ThrownString(""), value |-> Null]
Resolved(v)    == [state |-> "resolved", err |-> ThrownString(""), value |-> v]
Rejected(err)  == [state |-> "rejected", err |-> err, value |-> Null]

\* What getNdefMessage may resolve to: no record, or a first record whose
\* payload decodes to a text (possibly empty).
NdefResults == { Null, Some(<< >>), Some(Str(<<"H","i">>)) }

\* Ndef.encodeMessage([Ndef.uriRecord(uri)])
UriMessage(uri) == << [type |-> "U", payload |-> uri] >>

NewOp(kind) ==
    [ kind          |-> kind,
      pc            |-> "start",
      awaited       |-> Pending,
      draft         |-> << >>,     \* the draft when the trigger fired
      uri           |-> << >>,     \* const uri = deepLink
      writeArg      |-> << >>,     \* the message handed to writeNdefMessage
      acquired      |-> FALSE,     \* requestTechnology resolved
      ioCalls       |-> 0,         \* writeNdefMessage, getTag, getNdefMessage calls
      written       |-> FALSE,     \* the platform completed the write
      cancels       |-> 0,         \* cancelTechnologyRequest calls
      releasedBy    |-> 0,         \* whose cancelTechnologyRequest ended its session
      errorAlerts   |-> 0,         \* Alert.alert('NFC error', ...)
      successAlerts |-> 0,         \* Alert.alert('Success', ...)
      notice        |-> << >>,     \* the text of the error alert
      failure       |-> << >>,     \* the reason of the failure that hit it
      escaped       |-> FALSE ]    \* the handler's promise rejected

\* The state the handlers act on, as one value.
Machine ==
    [ops |-> ops, session |-> session, isWriting |-> isWriting,
     isReading |-> isReading, lastRead |-> lastRead]

Becomes(m) ==
    /\ ops' = m.ops
    /\ session' = m.session
    /\ isWriting' = m.isWriting
    /\ isReading' = m.isReading
    /\ lastRead' = m.lastRead

\* A promise of invocation id is rejected by the platform.
Reject(m, id, err) ==
    [m EXCEPT !.ops[id].awaited = Rejected(err), !.ops[id].failure = Reason(err)]

\* NfcManager.requestTechnology(NfcTech.Ndef) by invocation id.
requestTechnology(m, id) ==
    LET m1 == [m EXCEPT !.ops[id].pc = "awaitRequest", !.ops[id].awaited = Pending]
    IN  IF m1.session.state = "idle"
        THEN [m1 EXCEPT !.session = [state |-> "requested", owner |-> id]]
        ELSE Reject(m1, id, ErrMultiRequest)

\* NfcManager.cancelTechnologyRequest().catch(() => {}) by invocation id.
cancelTechnologyRequest(m, id) ==
    LET m1 == [m EXCEPT !.ops[id].cancels = @ + 1]
        o  == m1.session.owner
        m2 == IF m1.session.state = "idle" THEN m1
              ELSE [m1 EXCEPT !.session = Idle, !.ops[o].releasedBy = id]
    IN  IF m1.session.state = "requested" THEN Reject(m2, o, ErrCancelled) ELSE m2

\* A catch clause that shows nothing: C6 tells it from CatchClause.
CatchSilently(m, id, err) == m

\* catch (err) { Alert.alert('NFC error', err?.message ?? String(err)) }
CatchClause(m, id, err) ==
    [m EXCEPT !.ops[id].errorAlerts = @ + 1, !.ops[id].notice = ErrText(err)]

\* A cleanup that cancels only after a successful acquisition: C2 tells it
\* from FinallyClause.
FinallyCancelsIfAcquired(m, id) ==
    LET m1 == IF profile = "custom" THEN m
              ELSE IF m.ops[id].kind = "write" THEN [m EXCEPT !.isWriting = FALSE]
              ELSE [m EXCEPT !.isReading = FALSE]
        m2 == IF m.ops[id].acquired THEN cancelTechnologyRequest(m1, id) ELSE m1
    IN  [m2 EXCEPT !.ops[id].pc = "done"]

\* finally { setIsWriting(false) / setIsReading(false);
\*           NfcManager.cancelTechnologyRequest().catch(() => {}) }
\* (the custom profile has no busy flag)
FinallyClause(m, id) ==
    LET m1 == IF profile = "custom" THEN m
              ELSE IF m.ops[id].kind = "write" THEN [m EXCEPT !.isWriting = FALSE]
              ELSE [m EXCEPT !.isReading = FALSE]
        m2 == cancelTechnologyRequest(m1, id)
    IN  [m2 EXCEPT !.ops[id].pc = "done"]

\* The awaited promise rejected (or a call threw): catch, then finally.
Fail(m, id, err) == FinallyClause(CatchClause(m, id, err), id)

(***************************************************************************)
(* Deep-link listener (the useEffect)                                      *)
(***************************************************************************)
Mounted == listener # "removed"

Init ==
    /\ profile \in Profiles
    /\ AppAtRest
    /\ codecPc = "off"
    /\ codecIn = Null
    /\ codecUrl = Null
    /\ codecOut = Null

\* The effect body: getInitialURL() is asked, the "url" listener added.
MountEffect ==
    /\ listener = "none"
    /\ listener' = "active"
    /\ coldStart' = Asked
    /\ UNCHANGED <<profile, codecVars, input, deepLink, lastRead, isWriting, isReading,
                   session, ops>>

\* A cold start that reports a miss like a live event: C4 tells it from
\* ColdStartLastRead.
ColdStartSentinelOnMiss(msg, prev) == IF Truthy(msg) THEN msg ELSE Some(Sentinel)

\* Linking.getInitialURL().then(url => { ... if (msg) setLastRead(msg) })
ColdStartLastRead(msg, prev) == IF Truthy(msg) THEN msg ELSE prev

\* The callback holds setLastRead and the cleanup does not unregister it, so
\* it runs after the cleanup too.  React then applies the update when the
\* component is still alive (the effect was cleaned up to be run again) and
\* discards it when the component was unmounted: both outcomes are kept.
SetLastReadOutcomes(value, prev) == IF Mounted THEN {value} ELSE {value, prev}

ColdStartResolve(link) ==
    /\ coldStart = Asked
    /\ coldStart' = Answered(link)
    /\ lastRead' \in SetLastReadOutcomes(
           ColdStartLastRead(MessageOfLink(profile, link), lastRead), lastRead)
    /\ UNCHANGED <<profile, codecVars, input, deepLink, isWriting, isReading, listener,
                   session, ops>>

\* A live event that keeps lastRead on a miss like the cold start: C3 tells
\* it from UrlEventLastRead.
UrlEventKeepsOnMiss(msg, prev) == IF Truthy(msg) THEN msg ELSE prev

\* Linking.addEventListener('url', e => { ... })
UrlEventLastRead(msg, prev) == IF Truthy(msg) THEN msg ELSE Some(Sentinel)

UrlEvent(l) ==
    /\ listener = "active"
    /\ UNCHANGED <<profile, codecVars, input, deepLink, isWriting, isReading, listener,
                   coldStart, session, ops>>
    /\ lastRead' = UrlEventLastRead(MessageOfLink(profile, Some(l)), lastRead)

\* The effect's cleanup: subscription.remove?.()  (addEventListener returns
\* an EmitterSubscription, whose remove() ends the delivery of "url" events)
Teardown ==
    /\ listener = "active"
    /\ listener' = "removed"
    /\ UNCHANGED <<profile, codecVars, input, deepLink, lastRead, isWriting, isReading,
                   coldStart, session, ops>>

\* onChangeText={setInput}, and the render that recomputes the memo.
SetInput(s) ==
    /\ Mounted
    /\ s # input
    /\ input' = s
    /\ deepLink' = buildDeepLink(profile, s)
    /\ UNCHANGED <<profile, codecVars, lastRead, isWriting, isReading, listener, coldStart,
                   session, ops>>

(***************************************************************************)
(* writeToTag                                                              *)
(***************************************************************************)
HandlerFrame == <<profile, codecVars, input, deepLink, listener, coldStart>>

\* try { setIsWriting(true); const uri = deepLink; const bytes = ...;
\*       await NfcManager.requestTechnology(NfcTech.Ndef)
WriteStart(m, id, throws) ==
    LET m1 == [m EXCEPT !.ops = Append(@, [NewOp("write") EXCEPT !.draft = input,
                                                                 !.uri = deepLink])]
        m2 == IF profile = "custom" THEN m1 ELSE [m1 EXCEPT !.isWriting = TRUE]
    IN  IF throws
        THEN Fail([m2 EXCEPT !.ops[id].failure = Reason(ErrEncode)], id, ErrEncode)
        ELSE requestTechnology(m2, id)

\* The button is pressed; throws: Ndef.encodeMessage throws.
WriteTrigger(throws) ==
    /\ Mounted
    /\ Len(ops) < MaxOps
    /\ Becomes(WriteStart(Machine, Len(ops) + 1, throws))
    /\ UNCHANGED HandlerFrame

\* A write of the link of the draft at the time of the write call, not of
\* the trigger: C5 tells it from WriteContinue.
WriteContinueLatestLink(m, id) ==
    IF m.ops[id].awaited.state = "resolved"
    THEN [m EXCEPT !.ops[id].acquired = TRUE,
                   !.ops[id].pc = "awaitWrite",
                   !.ops[id].awaited = Pending,
                   !.ops[id].ioCalls = @ + 1,
                   !.ops[id].writeArg = UriMessage(deepLink)]
    ELSE Fail(m, id, m.ops[id].awaited.err)

\* ... await NfcManager.ndefHandler.writeNdefMessage(bytes)
WriteContinue(m, id) ==
    IF m.ops[id].awaited.state = "resolved"
    THEN [m EXCEPT !.ops[id].acquired = TRUE,
                   !.ops[id].pc = "awaitWrite",
                   !.ops[id].awaited = Pending,
                   !.ops[id].ioCalls = @ + 1,
                   !.ops[id].writeArg = UriMessage(m.ops[id].uri)]
    ELSE Fail(m, id, m.ops[id].awaited.err)

WriteAfterRequest(id) ==
    /\ ops[id].kind = "write"
    /\ ops[id].pc = "awaitRequest"
    /\ ops[id].awaited.state # "pending"
    /\ Becomes(WriteContinue(Machine, id))
    /\ UNCHANGED HandlerFrame

\* ... Alert.alert('Success', `Wrote tag:\n${uri}`) } catch ... finally ...
WriteFinish(m, id) ==
    IF m.ops[id].awaited.state = "resolved"
    THEN FinallyClause([m EXCEPT !.ops[id].successAlerts = @ + 1], id)
    ELSE Fail(m, id, m.ops[id].awaited.err)

WriteAfterWrite(id) ==
    /\ ops[id].kind = "write"
    /\ ops[id].pc = "awaitWrite"
    /\ ops[id].awaited.state # "pending"
    /\ Becomes(WriteFinish(Machine, id))
    /\ UNCHANGED HandlerFrame

(***************************************************************************)
(* readTag (https profile)                                                 *)
(***************************************************************************)
\* try { setIsReading(true); await NfcManager.requestTechnology(NfcTech.Ndef)
ReadStart(m, id) ==
    requestTechnology([m EXCEPT !.ops = Append(@, NewOp("read")), !.isReading = TRUE], id)

ReadTrigger ==
    /\ profile = "https"
    /\ Mounted
    /\ Len(ops) < MaxOps
    /\ Becomes(ReadStart(Machine, Len(ops) + 1))
    /\ UNCHANGED HandlerFrame

\* ... const tag = await NfcManager.getTag()
\* ... const ndef = await NfcManager.ndefHandler.getNdefMessage()
ReadContinue(m, id, next) ==
    IF m.ops[id].awaited.state = "resolved"
    THEN [m EXCEPT !.ops[id].acquired = TRUE,
                   !.ops[id].pc = next,
                   !.ops[id].awaited = Pending,
                   !.ops[id].ioCalls = @ + 1]
    ELSE Fail(m, id, m.ops[id].awaited.err)

ReadAfterRequest(id) ==
    /\ ops[id].kind = "read"
    /\ ops[id].pc = "awaitRequest"
    /\ ops[id].awaited.state # "pending"
    /\ Becomes(ReadContinue(Machine, id, "awaitTag"))
    /\ UNCHANGED HandlerFrame

ReadAfterGetTag(id) ==
    /\ ops[id].kind = "read"
    /\ ops[id].pc = "awaitTag"
    /\ ops[id].awaited.state # "pending"
    /\ Becomes(ReadContinue(Machine, id, "awaitNdef"))
    /\ UNCHANGED HandlerFrame

\* ... if (ndef?.ndefMessage?.length) { ... setLastRead(text || 'No message found') }
ReadFinish(m, id) ==
    IF m.ops[id].awaited.state = "resolved"
    THEN LET text == m.ops[id].awaited.value
             m1   == IF ~text.present THEN m
                     ELSE IF text.val # << >> THEN [m EXCEPT !.lastRead = text]
                     ELSE [m EXCEPT !.lastRead = Some(Sentinel)]
         IN  FinallyClause(m1, id)
    ELSE Fail(m, id, m.ops[id].awaited.err)

ReadAfterGetNdef(id) ==
    /\ ops[id].kind = "read"
    /\ ops[id].pc = "awaitNdef"
    /\ ops[id].awaited.state # "pending"
    /\ Becomes(ReadFinish(Machine, id))
    /\ UNCHANGED HandlerFrame

(***************************************************************************)
(* The platform                                                            *)
(***************************************************************************)
PlatformFrame ==
    <<profile, codecVars, input, deepLink, lastRead, isWriting, isReading, listener,
      coldStart>>

\* A tag comes into range: the pending request resolves.
TagDiscovered ==
    /\ session.state = "requested"
    /\ session' = [session EXCEPT !.state = "connected"]
    /\ ops' = [ops EXCEPT ![session.owner].awaited = Resolved(Null)]
    /\ UNCHANGED PlatformFrame

\* The pending request fails (wrong technology, time-out).
RequestFails ==
    /\ session.state = "requested"
    /\ Becomes(Reject([Machine EXCEPT !.session = Idle], session.owner, ErrRequest))
    /\ UNCHANGED HandlerFrame

Holds(id) == session.state = "connected" /\ session.owner = id

\* writeNdefMessage, getTag or getNdefMessage completes.
IoSucceeds(id, v) ==
    /\ ops[id].pc \in {"awaitWrite", "awaitTag", "awaitNdef"}
    /\ ops[id].awaited.state = "pending"
    /\ Holds(id)
    /\ v.present => ops[id].pc = "awaitNdef"
    /\ ops' = [ops EXCEPT ![id].awaited = Resolved(v),
                          ![id].written = (ops[id].pc = "awaitWrite")]
    /\ UNCHANGED <<session, PlatformFrame>>

\* ... or fails: an I/O error, or the session is no longer the caller's.
IoFails(id) ==
    /\ ops[id].pc \in {"awaitWrite", "awaitTag", "awaitNdef"}
    /\ ops[id].awaited.state = "pending"
    /\ Becomes(Reject(Machine, id, IF Holds(id) THEN ErrIo ELSE ErrNoTech))
    /\ UNCHANGED HandlerFrame

(***************************************************************************)
(* Two specifications of the application.  The trigger handlers never read *)
(* lastRead or coldStart, and the listener never reads input, deepLink or  *)
(* a write's state, so each is checked with the other's steps left out:    *)
(*   Spec      the effect's life cycle, the draft, writeToTag, readTag and *)
(*             the platform;                                               *)
(*   LinkSpec  the effect, the cold start, URL notifications, and readTag  *)
(*             (the other writer of lastRead) with the platform.           *)
(***************************************************************************)
Next ==
    \/ MountEffect
    \/ Teardown
    \/ \E s \in Drafts : SetInput(s)
    \/ \E throws \in BOOLEAN : WriteTrigger(throws)
    \/ \E id \in DOMAIN ops : WriteAfterRequest(id)
    \/ \E id \in DOMAIN ops : WriteAfterWrite(id)
    \/ ReadTrigger
    \/ \E id \in DOMAIN ops : ReadAfterRequest(id)
    \/ \E id \in DOMAIN ops : ReadAfterGetTag(id)
    \/ \E id \in DOMAIN ops : ReadAfterGetNdef(id)
    \/ TagDiscovered
    \/ RequestFails
    \/ \E id \in DOMAIN ops : \E v \in NdefResults : IoSucceeds(id, v)
    \/ \E id \in DOMAIN ops : IoFails(id)

Spec == Init /\ [][Next]_vars

LaunchLinks == {Null} \cup {Some(l) : l \in Links}

LinkNext ==
    \/ MountEffect
    \/ \E link \in LaunchLinks : ColdStartResolve(link)
    \/ \E l \in Links : UrlEvent(l)
    \/ Teardown
    \/ ReadTrigger
    \/ \E id \in DOMAIN ops : ReadAfterRequest(id)
    \/ \E id \in DOMAIN ops : ReadAfterGetTag(id)
    \/ \E id \in DOMAIN ops : ReadAfterGetNdef(id)
    \/ TagDiscovered
    \/ RequestFails
    \/ \E id \in DOMAIN ops : \E v \in NdefResults : IoSucceeds(id, v)
    \/ \E id \in DOMAIN ops : IoFails(id)

LinkSpec == Init /\ [][LinkNext]_vars

(***************************************************************************)
(* Properties                                                              *)
(***************************************************************************)
Parsed(kind) == codecPc = "parsed" /\ codecIn.kind = kind

\* C1: for every message s, parseMessageFromUrl(buildDeepLink(s)) is s, as a
\* present value, in both profiles.
C1_RoundTrip == Parsed("message") => codecOut = Some(codecIn.msg)

\* An invocation's handler has returned in this step.
JustFinished(id) ==
    /\ id \in DOMAIN ops'
    /\ ops'[id].pc = "done"
    /\ id \notin DOMAIN ops \/ ops[id].pc # "done"

\* C2: every invocation of writeToTag or readTag has called
\* cancelTechnologyRequest exactly once when its handler has returned, and
\* not at all before its last step, whatever its outcome.
C2_CleanupOnce ==
    \A id \in DOMAIN ops : ops[id].cancels = (IF ops[id].pc = "done" THEN 1 ELSE 0)

\* A write whose encoding threw before any acquisition, cleaned up once.
C2_Witness ==
    \E id \in DOMAIN ops :
        /\ ops[id].pc = "done"
        /\ ops[id].failure = Reason(ErrEncode)
        /\ ops[id].cancels = 1
        /\ \E other \in DOMAIN ops : ops[other].pc = "done" /\ ops[other].successAlerts = 1

\* What the claims expect a link to yield: the message it carries for this
\* application, or null.
ExpectedOf(link) == IF link.present THEN ExpectedMessage(profile, link.val) ELSE Null

\* What C3 expects lastRead to be after the notification of link l.
AfterEvent(l) ==
    IF ExpectedOf(Some(l)).present THEN ExpectedOf(Some(l)) ELSE Some(Sentinel)

\* C3: whatever lastRead holds, the value the url callback computes for a
\* link is the link's message when it carries one for this application and
\* "No message found" otherwise (foreign scheme, malformed url, empty m),
\* and every notification step leaves lastRead at that value.
C3_LiveEvent ==
    /\ [](\A l \in Links :
            UrlEventLastRead(MessageOfLink(profile, Some(l)), lastRead)
                = AfterEvent(l))
    /\ [][\A l \in Links : UrlEvent(l) => lastRead' = AfterEvent(l)]_vars

\* A notification has replaced a message by the sentinel: no read ran, and
\* the cold start never sets the sentinel.
C3_Witness ==
    /\ lastRead = Some(Sentinel)
    /\ ops = << >>
    /\ coldStart = Answered(Some(OwnLink(profile, QueryHello)))

\* C4: when the initial-URL query resolves in the mounted component,
\* lastRead becomes the launch link's message if it carries one for this
\* application and is left as it was otherwise (no launch link, foreign or
\* malformed link, empty m).
C4_ColdStart ==
    [][Mounted /\ coldStart = Asked /\ coldStart' # Asked =>
          lastRead' = (IF ExpectedOf(coldStart'.link).present
                       THEN ExpectedOf(coldStart'.link) ELSE lastRead)]_vars

\* Launched by the own link that carries "Hello World", no trigger pressed.
C4_Witness ==
    /\ coldStart = Answered(Some(OwnLink(profile, QueryHello)))
    /\ lastRead = QueryHello.m
    /\ lastRead.val = Str(<<"H","e","l","l","o"," ","W","o","r","l","d">>)
    /\ ops = << >>

\* C5: the message handed to writeNdefMessage is the URI record of
\* buildDeepLink(d), d the draft when the trigger fired; the success alert
\* is shown once and only after the platform completed the write; and the
\* step in which the handler returns leaves the write busy flag false.
C5_WriteState ==
    \A id \in DOMAIN ops :
        ops[id].kind = "write" =>
            /\ ops[id].writeArg # << >> =>
                   ops[id].writeArg = UriMessage(buildDeepLink(profile, ops[id].draft))
            /\ ops[id].successAlerts = (IF ops[id].pc = "done" /\ ops[id].written /\ ops[id].failure = << >>
                                        THEN 1 ELSE 0)
            /\ ops[id].successAlerts = 1 => ops[id].written

C5_WriteSuccess ==
    /\ []C5_WriteState
    /\ [][\A id \in 1..MaxOps :
             JustFinished(id) /\ ops'[id].kind = "write" => isWriting' = FALSE]_vars

\* A write of the first draft succeeded after the draft was changed.
C5_Witness ==
    \E id \in DOMAIN ops :
        /\ ops[id].kind = "write"
        /\ ops[id].pc = "done"
        /\ ops[id].successAlerts = 1
        /\ ops[id].draft = HelloFromNFC
        /\ input # HelloFromNFC
        /\ ops[id].writeArg = UriMessage(buildDeepLink(profile, HelloFromNFC))
        /\ profile = "https"
        /\ ~isWriting

\* C6: a handler hit by a failure has, when it returns, shown exactly one
\* error alert with the failure's reason and no success alert, cleaned up
\* the session, and let nothing escape; after a failed acquisition it made
\* no write or read call; no I/O call follows a failure; and the step in
\* which it returns leaves its busy flag false.
C6_FailureState ==
    \A id \in DOMAIN ops :
        /\ ~ops[id].escaped
        /\ ~ops[id].acquired => ops[id].ioCalls = 0 /\ ops[id].writeArg = << >>
        /\ ops[id].failure # << >> /\ ops[id].pc = "done" =>
               /\ ops[id].errorAlerts = 1
               /\ ops[id].notice = ops[id].failure
               /\ ops[id].successAlerts = 0
               /\ ops[id].cancels = 1
        /\ ops[id].failure = << >> => ops[id].errorAlerts = 0

C6_FailureHandling ==
    /\ []C6_FailureState
    /\ [][\A id \in DOMAIN ops :
             /\ ops[id].failure # << >> => ops'[id].ioCalls = ops[id].ioCalls
             /\ JustFinished(id) /\ ops'[id].failure # << >> =>
                    IF ops'[id].kind = "write" THEN isWriting' = FALSE
                    ELSE isReading' = FALSE]_vars

\* A read whose acquisition failed: one alert with the platform's reason.
C6_Witness ==
    \E id \in DOMAIN ops :
        /\ ops[id].kind = "read"
        /\ ops[id].pc = "done"
        /\ ~ops[id].acquired
        /\ ops[id].failure = Reason(ErrRequest)
        /\ ops[id].notice = <<"no tag of this technology">>
        /\ ops[id].errorAlerts = 1
        /\ ~isReading

\* C7: after the effect's cleanup no URL notification is delivered and no
\* deep-link update logic, the pending cold-start callback included,
\* changes lastRead.
C7_NoUpdateAfterTeardown ==
    [][listener = "removed" =>
          /\ \A l \in Links : ~UrlEvent(l)
          /\ coldStart' # coldStart => lastRead' = lastRead]_vars

\* C8: a url whose scheme is not the configured one yields null, whatever
\* its host and query, in both profiles.
C8_SchemeRejection ==
    Parsed("url") /\ ~SchemeMatches(profile, codecIn.parts) => codecOut = Null

\* A foreign scheme on the configured host with a valid m parameter.
C8_Witness ==
    /\ Parsed("url")
    /\ ~SchemeMatches(profile, codecIn.parts)
    /\ codecIn.parts.scheme = StrHttp
    /\ codecIn.parts.host = HOST(profile)
    /\ codecIn.parts.query.m.present
    /\ codecOut = Null

\* C9: with the configured scheme, the https profile yields null for every
\* host but nfcmsg.test, and the custom profile yields the message of the m
\* parameter for every host.
C9_HostRejection ==
    Parsed("url") /\ SchemeMatches(profile, codecIn.parts) =>
        /\ profile = "https" /\ codecIn.parts.host # StrNfcmsgTest => codecOut = Null
        /\ profile = "custom" => codecOut = codecIn.parts.query.m

\* The https scheme, a foreign host, a valid m parameter: rejected.
C9_Witness ==
    /\ Parsed("url")
    /\ profile = "https"
    /\ SchemeMatches(profile, codecIn.parts)
    /\ codecIn.parts.host = StrEvilTest
    /\ codecIn.parts.query = QueryHi
    /\ codecOut = Null

\* C10: a second operation triggered while one is in flight is rejected and
\* shows an ordinary error alert, and the first operation's session is
\* ended only by the first operation's own cleanup.
C10_OwnCleanupOnly ==
    \A id \in DOMAIN ops :
        /\ ops[id].releasedBy \in {0, id}
        /\ ops[id].failure = Reason(ErrMultiRequest) /\ ops[id].pc = "done" =>
               ops[id].errorAlerts = 1

====
